---- MODULE Spec2Model ----
(***************************************************************************)
(* A model of src/param_impl.py: the path codec (nest_dict, flatten_dict,  *)
(* DictDataClass.to_flattened_dict) and the sweep expansion                *)
(* (Parameters.get_settings).                                              *)
(*                                                                         *)
(* Strings are sequences of one-character strings, so that str.split,      *)
(* str.join and str.endswith are computed character by character.          *)
(* A Python dict is the sequence of its items in insertion order.          *)
(***************************************************************************)
EXTENDS Integers, Sequences, FiniteSets, TLC

VARIABLES m, sep, flat, nested, done,
          heap, root, outs, err, snapIn, snapOuts, touched

vars == <<m, sep, flat, nested, done, heap, root, outs, err, snapIn, snapOuts, touched>>

codecVars == <<m, sep, flat, nested>>
sweepVars == <<heap, root, outs, err, snapIn, snapOuts, touched>>

(***************************************************************************)
(* Bounds of the model.                                                    *)
(***************************************************************************)
\* total number of items (over all nesting levels) of an input mapping
MaxItems == 3

\* total number of fields, list elements and nested Parameters instances of
\* an input tree
MaxNodes == 7

(***************************************************************************)
(* Strings.                                                                *)
(***************************************************************************)
DefaultSep == <<".">>

GridSearch == <<"g", "r", "i", "d", "_", "s", "e", "a", "r", "c", "h">>

\* the separators a caller passes
Seps == {<<".">>, <<"/">>}

\* the keys of the input mappings
Keys == {<<"a">>, <<"b">>, <<"a", ".", "b">>, GridSearch}

Leaves == {1, 2}


\* Python's str.find, 1-based; 0 when s does not occur in k
find(k, s) ==
    LET hits == {i \in 1..Len(k) : /\ i + Len(s) - 1 <= Len(k)
                                   /\ SubSeq(k, i, i + Len(s) - 1) = s}
    IN IF hits = {} THEN 0 ELSE CHOOSE i \in hits : \A j \in hits : i <= j

\* k.split(s, 1)
split1(k, s) ==
    LET i == find(k, s)
    IN IF i = 0 THEN <<k>>
       ELSE <<SubSeq(k, 1, i - 1), SubSeq(k, i + Len(s), Len(k))>>

\* k.split(s)
RECURSIVE split(_, _)
split(k, s) ==
    LET p == split1(k, s)
    IN IF Len(p) = 1 THEN p ELSE <<p[1]>> \o split(p[2], s)

\* s.join(parts)
RECURSIVE join(_, _)
join(s, parts) ==
    IF Len(parts) = 0 THEN <<>>
    ELSE IF Len(parts) = 1 THEN parts[1]
    ELSE parts[1] \o s \o join(s, Tail(parts))

\* k.startswith(prefix)
startswith(k, prefix) ==
    /\ Len(prefix) <= Len(k)
    /\ SubSeq(k, 1, Len(prefix)) = prefix

\* k.endswith(suffix)
endswith(k, suffix) ==
    /\ Len(suffix) <= Len(k)
    /\ SubSeq(k, Len(k) - Len(suffix) + 1, Len(k)) = suffix

(***************************************************************************)
(* Values of a mapping: a leaf (anything that is no MutableMapping) or a   *)
(* dict, the sequence of its items [k, v] in insertion order.              *)
(***************************************************************************)
Leaf(n) == [t |-> "leaf", n |-> n, items |-> <<>>]

Dict(items) == [t |-> "dict", n |-> 0, items |-> items]

\* isinstance(v, MutableMapping)
IsMutableMapping(v) == v.t = "dict"

KeysOf(items) == {items[i].k : i \in 1..Len(items)}

IndexOf(items, k) ==
    IF k \in KeysOf(items) THEN CHOOSE i \in 1..Len(items) : items[i].k = k ELSE 0

\* d[k] = v on the items of d
setitem(items, k, v) ==
    LET i == IndexOf(items, k)
    IN IF i = 0 THEN Append(items, [k |-> k, v |-> v])
       ELSE [items EXCEPT ![i] = [k |-> k, v |-> v]]

\* d.update(other) on the items of d
RECURSIVE update(_, _)
update(items, other) ==
    IF other = <<>> THEN items
    ELSE update(setitem(items, Head(other).k, Head(other).v), Tail(other))

\* dict equality: the same keys with equal values, whatever the order
RECURSIVE Canon(_)
Canon(v) ==
    [t |-> v.t, n |-> v.n,
     items |-> {[k |-> v.items[i].k, v |-> Canon(v.items[i].v)] : i \in 1..Len(v.items)}]

DictEq(v, w) == Canon(v) = Canon(w)

(***************************************************************************)
(* nest_dict                                                               *)
(***************************************************************************)
Ok(v) == [err |-> "none", val |-> v]

Raise(e) == [err |-> e, val |-> Dict(<<>>)]

\* _nest_dict_rec(k, v, out, sep): the result is out after the call, or the
\* exception raised.  out is the object out.setdefault returned in the caller:
\* a leaf has neither setdefault (AttributeError) nor item assignment
\* (TypeError).  The recursive call does not pass sep on.
RECURSIVE _nest_dict_rec(_, _, _, _)
_nest_dict_rec(k, v, out, s) ==
    LET p == split1(k, s)
    IN IF Len(p) = 2
       THEN IF ~IsMutableMapping(out) THEN Raise("AttributeError")
            ELSE LET i     == IndexOf(out.items, p[1])
                     child == IF i = 0 THEN Dict(<<>>) ELSE out.items[i].v
                     r     == _nest_dict_rec(p[2], v, child, DefaultSep)
                 IN IF r.err # "none" THEN r
                    ELSE Ok(Dict(setitem(out.items, p[1], r.val)))
       ELSE IF ~IsMutableMapping(out) THEN Raise("TypeError")
            ELSE Ok(Dict(setitem(out.items, p[1], v)))

RECURSIVE nest_loop(_, _, _)
nest_loop(items, result, s) ==
    IF items = <<>> THEN Ok(result)
    ELSE LET r == _nest_dict_rec(Head(items).k, Head(items).v, result, s)
         IN IF r.err # "none" THEN r ELSE nest_loop(Tail(items), r.val, s)

nest_dict(flat_items, s) == nest_loop(flat_items, Dict(<<>>), s)

(***************************************************************************)
(* flatten_dict                                                            *)
(***************************************************************************)
RECURSIVE flatten_dict(_, _, _)
RECURSIVE flatten_loop(_, _, _, _)
flatten_loop(items, flat_d, s, parent_key) ==
    IF items = <<>> THEN flat_d
    ELSE LET k0 == Head(items).k
             v  == Head(items).v
             k  == IF parent_key # <<>> THEN parent_key \o s \o k0 ELSE k0
             f  == IF IsMutableMapping(v)
                   THEN update(flat_d, flatten_dict(v, s, k))
                   ELSE setitem(flat_d, k, v)
         IN flatten_loop(Tail(items), f, s, parent_key)

flatten_dict(d, s, parent_key) == flatten_loop(d.items, <<>>, s, parent_key)

(***************************************************************************)
(* DictDataClass.to_flattened_dict, on d = self.to_dict()                  *)
(***************************************************************************)
RECURSIVE grid_search_loop(_, _, _)
grid_search_loop(items, d, s) ==
    IF items = <<>> THEN d
    ELSE LET k == Head(items).k
             v == Head(items).v
             d2 == IF endswith(k, GridSearch)
                   THEN LET parts == split(k, s)
                        IN setitem(d, join(s, SubSeq(parts, 1, Len(parts) - 1)),
                                   Dict(<<[k |-> GridSearch, v |-> v]>>))
                   ELSE setitem(d, k, v)
         IN grid_search_loop(Tail(items), d2, s)

to_flattened_dict(d, s) ==
    grid_search_loop(flatten_dict(d, DefaultSep, <<>>), <<>>, s)

(***************************************************************************)
(* The input mappings: every dict over Keys and Leaves with at most        *)
(* MaxItems items in all, nested to any depth.                             *)
(***************************************************************************)
RECURSIVE Cost(_)
RECURSIVE SumCost(_)
SumCost(items) == IF items = <<>> THEN 0 ELSE 1 + Cost(Head(items).v) + SumCost(Tail(items))
Cost(v) == SumCost(v.items)

RECURSIVE ItemSeqs(_)
ItemSeqs(n) ==
    IF n = 0 THEN {<<>>}
    ELSE {<<>>} \cup
         UNION { UNION { { <<[k |-> k, v |-> v]>> \o rest :
                             rest \in {r \in ItemSeqs(n - 1 - Cost(v)) : k \notin KeysOf(r)} }
                         : v \in {Leaf(x) : x \in Leaves}
                                 \cup {Dict(its) : its \in ItemSeqs(n - 1)} }
                 : k \in Keys }

MappingsUpTo(n) == {Dict(its) : its \in ItemSeqs(n)}

(***************************************************************************)
(* The path codec as a state machine: a caller holds a mapping m and a     *)
(* separator, and applies the operations of the codec to them.             *)
(***************************************************************************)
NoSweep ==
    /\ heap = <<>> /\ root = 0 /\ outs = <<>> /\ err = [kind |-> "none", field |-> ""]
    /\ snapIn = 0 /\ snapOuts = <<>> /\ touched = 0

InitCodec ==
    /\ m \in MappingsUpTo(MaxItems)
    /\ sep \in Seps
    /\ flat = <<>>
    /\ nested = Ok(Dict(<<>>))
    /\ done = <<>>
    /\ NoSweep

\* flat = flatten_dict(m, sep)
FlattenDict ==
    /\ done = <<>>
    /\ flat' = flatten_dict(m, sep, <<>>)
    /\ done' = <<"flatten_dict">>
    /\ UNCHANGED <<m, sep, nested>>
    /\ UNCHANGED sweepVars

\* flat = x.to_flattened_dict(sep), where m = x.to_dict()
ToFlattenedDict ==
    /\ done = <<>>
    /\ flat' = to_flattened_dict(m, sep)
    /\ done' = <<"to_flattened_dict">>
    /\ UNCHANGED <<m, sep, nested>>
    /\ UNCHANGED sweepVars

\* nested = nest_dict(m, sep): m taken as a flattened mapping
NestInput ==
    /\ done = <<>>
    /\ nested' = nest_dict(m.items, sep)
    /\ done' = <<"nest_dict">>
    /\ UNCHANGED <<m, sep, flat>>
    /\ UNCHANGED sweepVars

\* nested = nest_dict(flat, sep), flat being the result of a flattening
NestFlat ==
    /\ Len(done) = 1 /\ done[1] \in {"flatten_dict", "to_flattened_dict"}
    /\ nested' = nest_dict(flat, sep)
    /\ done' = Append(done, "nest_dict")
    /\ UNCHANGED <<m, sep, flat>>
    /\ UNCHANGED sweepVars

NextCodec == FlattenDict \/ ToFlattenedDict \/ NestInput \/ NestFlat

SpecCodec == InitCodec /\ [][NextCodec]_vars

(***************************************************************************)
(* Objects.  A Parameters instance, a Settings list and a mutable leaf     *)
(* (such as a Python list) are cells of a heap, addressed by their index;  *)
(* a field or an element holds an immutable number or a reference.         *)
(***************************************************************************)
IntV(n) == [t |-> "int", x |-> n]

RefV(a) == [t |-> "ref", x |-> a]

\* kind "P": a Parameters instance with its fields in declared order;
\* kind "S": a Settings list; kind "B": a mutable leaf object
Cell(kind, keys, vals) == [kind |-> kind, keys |-> keys, vals |-> vals]

\* isinstance(v, Parameters)
IsParameters(h, v) == v.t = "ref" /\ h[v.x].kind = "P"

\* isinstance(v, Settings)
IsSettings(h, v) == v.t = "ref" /\ h[v.x].kind = "S"

(***************************************************************************)
(* The value of an object graph, as a tree: what == compares.              *)
(***************************************************************************)
TInt(n) == [t |-> "int", n |-> n, keys |-> <<>>, vals |-> <<>>]

TBox(n) == [t |-> "B", n |-> n, keys |-> <<>>, vals |-> <<>>]

TSet(elems) == [t |-> "S", n |-> 0, keys |-> <<>>, vals |-> elems]

TPar(keys, vals) == [t |-> "P", n |-> 0, keys |-> keys, vals |-> vals]

RECURSIVE Val(_, _)
Val(h, v) ==
    IF v.t = "int" THEN TInt(v.x)
    ELSE LET c == h[v.x]
         IN IF c.kind = "B" THEN TBox(c.vals[1].x)
            ELSE [t |-> c.kind, n |-> 0, keys |-> c.keys,
                  vals |-> [i \in 1..Len(c.vals) |-> Val(h, c.vals[i])]]

\* the cells reachable from a value
RECURSIVE Reach(_, _)
Reach(h, v) ==
    IF v.t = "int" THEN {}
    ELSE {v.x} \cup UNION {Reach(h, h[v.x].vals[i]) : i \in 1..Len(h[v.x].vals)}

\* the construction of an object graph from its tree
RECURSIVE Alloc(_, _)
RECURSIVE AllocSeq(_, _)
AllocSeq(h, tvs) ==
    IF tvs = <<>> THEN [heap |-> h, vs |-> <<>>]
    ELSE LET a == Alloc(h, Head(tvs))
             r == AllocSeq(a.heap, Tail(tvs))
         IN [heap |-> r.heap, vs |-> <<a.v>> \o r.vs]

Alloc(h, tv) ==
    IF tv.t = "int" THEN [heap |-> h, v |-> IntV(tv.n)]
    ELSE IF tv.t = "B"
    THEN [heap |-> Append(h, Cell("B", <<>>, <<IntV(tv.n)>>)), v |-> RefV(Len(h) + 1)]
    ELSE LET r == AllocSeq(h, tv.vals)
         IN [heap |-> Append(r.heap, Cell(tv.t, tv.keys, r.vs)),
             v |-> RefV(Len(r.heap) + 1)]

\* copy.deepcopy of an object graph in which no object is referenced twice,
\* as in the trees built here: every object is copied to a new cell
RECURSIVE deepcopy(_, _)
RECURSIVE deepcopy_seq(_, _)
deepcopy_seq(h, vs) ==
    IF vs = <<>> THEN [heap |-> h, vs |-> <<>>]
    ELSE LET a == deepcopy(h, Head(vs))
             r == deepcopy_seq(a.heap, Tail(vs))
         IN [heap |-> r.heap, vs |-> <<a.v>> \o r.vs]

deepcopy(h, v) ==
    IF v.t = "int" THEN [heap |-> h, v |-> v]
    ELSE LET c == h[v.x]
             r == deepcopy_seq(h, c.vals)
         IN [heap |-> Append(r.heap, Cell(c.kind, c.keys, r.vs)),
             v |-> RefV(Len(r.heap) + 1)]

\* setattr(obj, k, v)
setattr(h, a, k, v) ==
    LET i == CHOOSE j \in 1..Len(h[a].keys) : h[a].keys[j] = k
    IN [h EXCEPT ![a].vals[i] = v]

(***************************************************************************)
(* The input trees: every Parameters tree whose fields are a prefix of     *)
(* FieldOrder, with at most MaxNodes fields, list elements and nested      *)
(* Parameters instances in all.  A fixed field holds a mutable leaf; a     *)
(* Settings list holds immutable leaves, mutable leaves and Parameters     *)
(* instances, in any mix.                                                  *)
(***************************************************************************)
FieldOrder == <<"a", "b">>

FixedLeaves == {TBox(1)}

ElemLeaves == {TInt(1), TBox(1)}

\* tab[c + 1] holds the trees (P) and the element sequences (E) of cost c:
\* a field or an element costs one more than its value, and a nested
\* Parameters instance one more than its fields
FieldValsAt(tab, d) ==
    (IF d = 0 THEN FixedLeaves ELSE tab[d].P) \cup {TSet(es) : es \in tab[d + 1].E}

ElemValsAt(tab, d) ==
    IF d = 0 THEN ElemLeaves ELSE tab[d].P

ElemSeqsAt(tab, c) ==
    IF c = 0 THEN {<<>>}
    ELSE UNION { { <<e>> \o rest : e \in ElemValsAt(tab, d), rest \in tab[c - d].E }
                 : d \in 0..(c - 1) }

\* the value sequences of f fields of cost c in all
RECURSIVE FieldSeqsAt(_, _, _)
FieldSeqsAt(tab, c, f) ==
    IF f = 0 THEN (IF c = 0 THEN {<<>>} ELSE {})
    ELSE IF c < f THEN {}
    ELSE UNION { { <<v>> \o rest : v \in FieldValsAt(tab, d),
                                   rest \in FieldSeqsAt(tab, c - 1 - d, f - 1) }
                 : d \in 0..(c - f) }

ParamsAt(tab, c) ==
    UNION { { TPar(SubSeq(FieldOrder, 1, f), vs) : vs \in FieldSeqsAt(tab, c, f) }
            : f \in 0..Len(FieldOrder) }

RECURSIVE Levels(_, _)
Levels(tab, n) ==
    IF Len(tab) > n THEN tab
    ELSE Levels(Append(tab, [P |-> ParamsAt(tab, Len(tab)), E |-> ElemSeqsAt(tab, Len(tab))]), n)

TreesUpTo(n) == LET tab == Levels(<<>>, n) IN UNION {tab[c + 1].P : c \in 0..n}

(***************************************************************************)
(* Parameters.get_settings                                                 *)
(***************************************************************************)
\* what a call returns: the heap after it, and either the list of settings
\* or the exception raised, with the field its message names
Return(h, settings) == [heap |-> h, err |-> "none", field |-> "", outs |-> settings]

Raised(h, e, k) == [heap |-> h, err |-> e, field |-> k, outs |-> <<>>]

\* raise ValueError(f"Empty settings list for {k}")
empty_settings_error(h, k) == Raised(h, "ValueError", k)

\* a variant with the loops exchanged (for x in last for p in front): the
\* first field varies fastest
extend_first_fastest(front, last) ==
    [n \in 1..(Len(front) * Len(last)) |->
        Append(front[((n - 1) % Len(front)) + 1], last[((n - 1) \div Len(front)) + 1])]

\* for p in front for x in last: the innermost loop of itertools.product
RECURSIVE extend(_, _)
extend(front, last) ==
    IF front = <<>> THEN <<>>
    ELSE [j \in 1..Len(last) |-> Append(Head(front), last[j])] \o extend(Tail(front), last)

\* a variant that pairs the lists up as zip(*value_lists) does
product_zip(value_lists) ==
    IF value_lists = <<>> THEN <<>>
    ELSE LET lens == {Len(value_lists[i]) : i \in 1..Len(value_lists)}
             n    == CHOOSE l \in lens : \A k \in lens : l <= k
         IN [j \in 1..n |-> [i \in 1..Len(value_lists) |-> value_lists[i][j]]]

\* itertools.product(*value_lists), as the sequence of its tuples
RECURSIVE product(_)
product(value_lists) ==
    IF value_lists = <<>> THEN << <<>> >>
    ELSE extend(product(SubSeq(value_lists, 1, Len(value_lists) - 1)),
                value_lists[Len(value_lists)])

\* for k, v in zip(keys, values): setattr(_setting, k, v)
RECURSIVE assign(_, _, _, _)
assign(h, a, keys, values) ==
    IF keys = <<>> \/ values = <<>> THEN h
    ELSE assign(setattr(h, a, Head(keys), Head(values)), a, Tail(keys), Tail(values))

\* a variant that records _setting itself: settings.append(_setting)
copy_setting_shared(h, a) == [heap |-> h, v |-> RefV(a)]

\* deepcopy(_setting), the element settings.append records
copy_setting(h, a) == deepcopy(h, RefV(a))

\* the loop over product(*value_lists)
RECURSIVE build(_, _, _, _, _)
build(h, a, keys, tuples, settings) ==
    IF tuples = <<>> THEN Return(h, settings)
    ELSE LET h2 == assign(h, a, keys, Head(tuples))
             cp == copy_setting(h2, a)
         IN build(cp.heap, a, keys, Tail(tuples), Append(settings, cp.v))

RECURSIVE get_settings(_, _)
RECURSIVE collect(_, _, _, _, _)
RECURSIVE expand_elems(_, _, _)

\* a variant that skips an element whose expansion raises
RECURSIVE expand_elems_skipping(_, _, _)
expand_elems_skipping(h, data, acc) ==
    IF data = <<>> THEN Return(h, acc)
    ELSE IF ~IsParameters(h, Head(data)) THEN Raised(h, "AttributeError", "")
    ELSE LET r == get_settings(h, Head(data).x)
         IN IF r.err # "none" THEN expand_elems_skipping(r.heap, Tail(data), acc)
            ELSE expand_elems_skipping(r.heap, Tail(data), acc \o r.outs)

\* [s for _v in v for s in _v.get_settings()]
expand_elems(h, data, acc) ==
    IF data = <<>> THEN Return(h, acc)
    ELSE IF ~IsParameters(h, Head(data)) THEN Raised(h, "AttributeError", "")
    ELSE LET r == get_settings(h, Head(data).x)
         IN IF r.err # "none" THEN r
            ELSE expand_elems(r.heap, Tail(data), acc \o r.outs)

\* the loop over self.items(), from field i on; value_lists is returned in outs
collect(h, self, i, keys, value_lists) ==
    IF i > Len(h[self].keys)
    THEN [heap |-> h, err |-> "none", field |-> "", keys |-> keys, outs |-> value_lists]
    ELSE LET k == h[self].keys[i]
             v == h[self].vals[i]
         IN IF IsParameters(h, v)
            THEN LET r == get_settings(h, v.x)
                 IN IF r.err # "none" THEN r
                    ELSE collect(r.heap, self, i + 1, Append(keys, k),
                                 Append(value_lists, r.outs))
            ELSE IF IsSettings(h, v)
            THEN LET data == h[v.x].vals
                 IN IF Len(data) = 0 THEN empty_settings_error(h, k)
                    ELSE IF IsParameters(h, data[1])
                    THEN LET r == expand_elems(h, data, <<>>)
                         IN IF r.err # "none" THEN r
                            ELSE collect(r.heap, self, i + 1, Append(keys, k),
                                         Append(value_lists, r.outs))
                    ELSE collect(h, self, i + 1, Append(keys, k),
                                 Append(value_lists, data))
            ELSE collect(h, self, i + 1, keys, value_lists)

get_settings(h, self) ==
    LET c == collect(h, self, 1, <<>>, <<>>)
    IN IF c.err # "none" THEN Raised(c.heap, c.err, c.field)
       ELSE LET cp == deepcopy(c.heap, RefV(self))
            IN build(cp.heap, cp.v.x, c.keys, product(c.outs), <<>>)

(***************************************************************************)
(* The sweep as a state machine: a caller holds a tree, expands it, and    *)
(* then changes one of the trees it got back.                              *)
(***************************************************************************)
InitSweep ==
    /\ \E tv \in TreesUpTo(MaxNodes) :
          LET a == Alloc(<<>>, tv)
          IN /\ heap = a.heap
             /\ root = a.v.x
             /\ snapIn = tv
    /\ outs = <<>> /\ err = [kind |-> "none", field |-> ""] /\ snapOuts = <<>> /\ touched = 0
    /\ done = <<>>
    /\ m = Dict(<<>>) /\ sep = DefaultSep /\ flat = <<>> /\ nested = Ok(Dict(<<>>))

\* outs = root.get_settings()
GetSettings ==
    /\ done = <<>> /\ root # 0
    /\ LET r == get_settings(heap, root)
       IN /\ heap' = r.heap
          /\ outs' = r.outs
          /\ err' = [kind |-> r.err, field |-> r.field]
          /\ snapOuts' = [i \in 1..Len(r.outs) |-> Val(r.heap, r.outs[i])]
    /\ done' = <<"get_settings">>
    /\ UNCHANGED <<root, snapIn, touched>>
    /\ UNCHANGED codecVars

\* the value a caller writes when it changes a tree
Changed == IntV(9)

\* every object among cells mutated in place: a field reassigned, a list
\* element replaced, a leaf object changed
Scribble(h, cells) ==
    [a \in 1..Len(h) |->
        IF a \in cells
        THEN [h[a] EXCEPT !.vals = [j \in 1..Len(h[a].vals) |-> Changed]]
        ELSE h[a]]

\* the caller changes one of the output trees, all through
MutateOutput ==
    /\ done = <<"get_settings">>
    /\ \E i \in 1..Len(outs) :
          /\ heap' = Scribble(heap, Reach(heap, outs[i]))
          /\ touched' = i
    /\ done' = <<"get_settings", "mutate">>
    /\ UNCHANGED <<root, outs, err, snapIn, snapOuts>>
    /\ UNCHANGED codecVars

NextSweep == GetSettings \/ MutateOutput

SpecSweep == InitSweep /\ [][NextSweep]_vars

(***************************************************************************)
(* Properties of the path codec, checked under SpecCodec.                  *)
(***************************************************************************)
\* every key of a mapping, at every depth
RECURSIVE AllKeys(_)
AllKeys(v) ==
    KeysOf(v.items) \cup UNION {AllKeys(v.items[i].v) : i \in 1..Len(v.items)}

\* no key holds a separator or is empty: the keys are single path segments
PlainKeys(v) ==
    \A k \in AllKeys(v) : k # <<>> /\ \A s \in Seps : find(k, s) = 0

NoGridSearchKey(v) == \A k \in AllKeys(v) : ~endswith(k, GridSearch)

\* no mapping below the top one is empty
RECURSIVE NoEmptyInner(_)
NoEmptyInner(v) ==
    \A i \in 1..Len(v.items) :
        LET w == v.items[i].v
        IN IsMutableMapping(w) => (w.items # <<>> /\ NoEmptyInner(w))

RoundTripped == done = <<"flatten_dict", "nest_dict">>

\* C1: with the default separator, nest(flatten(m)) = m for every nested
\* mapping m without a key ending in grid_search, empty inner mappings
\* included.  Stated for keys that are single path segments, where a key
\* cannot be mistaken for a path.
RoundTripDefaultSep ==
    (RoundTripped /\ sep = DefaultSep /\ NoGridSearchKey(m) /\ PlainKeys(m))
        => (nested.err = "none" /\ DictEq(nested.val, m))

\* the places of a mapping where a key grid_search stands: its parent path
\* (a sequence of keys) and the value under it
RECURSIVE GridSearchPlaces(_, _)
GridSearchPlaces(v, path) ==
    UNION { IF v.items[i].k = GridSearch
            THEN {[p |-> path, v |-> v.items[i].v]}
            ELSE IF IsMutableMapping(v.items[i].v)
            THEN GridSearchPlaces(v.items[i].v, Append(path, v.items[i].k))
            ELSE {}
            : i \in 1..Len(v.items) }

\* C2: flattening keeps a grid_search entry whole: for a key grid_search under
\* the parent path p with value v, the flat mapping has the key p mapped to
\* {grid_search: v}, v as it was (a mapping too), and has neither the key
\* p.grid_search nor a key below it.
GridSearchPreserved ==
    (done = <<"to_flattened_dict">> /\ sep = DefaultSep /\ PlainKeys(m))
        => \A g \in GridSearchPlaces(m, <<>>) :
              LET p == join(sep, g.p)
                  i == IndexOf(flat, p)
                  q == IF p = <<>> THEN GridSearch ELSE p \o sep \o GridSearch
              IN /\ i # 0
                 /\ flat[i].v.t = "dict"
                 /\ Len(flat[i].v.items) = 1
                 /\ flat[i].v.items[1].k = GridSearch
                 /\ DictEq(flat[i].v.items[1].v, g.v)
                 /\ \A k \in KeysOf(flat) : k # q /\ ~startswith(k, q \o sep)

\* two keys of a flattened mapping that put a leaf and a mapping at one path
PathConflict(items, s) ==
    \E i, j \in 1..Len(items) :
        /\ i # j
        /\ ~IsMutableMapping(items[i].v)
        /\ LET pi == split(items[i].k, s)
               pj == split(items[j].k, s)
           IN Len(pi) < Len(pj) /\ SubSeq(pj, 1, Len(pi)) = pi

\* a flattened mapping: every value is a leaf
IsFlat(v) == \A i \in 1..Len(v.items) : ~IsMutableMapping(v.items[i].v)

\* C6: nest fails on a flattened mapping with a path conflict, in either key
\* order; it never returns a result in which one entry overwrote the other.
PathConflictRaises ==
    (done = <<"nest_dict">> /\ IsFlat(m) /\ PathConflict(m.items, sep))
        => nested.err # "none"

\* flatten(nested_mapping, separator) of the path codec: the keys joined with
\* the separator, then the grid_search rewrite with the same separator
flatten(d, s) == grid_search_loop(flatten_dict(d, s, <<>>), <<>>, s)

\* C7: to_flattened_mapping(s) = flatten(to_nested_mapping(), s) for every
\* separator s: the keys are joined with s.
ToFlattenedUsesSeparator ==
    done = <<"to_flattened_dict">>
        => DictEq(Dict(flat), Dict(flatten(m, sep)))

\* C10: for every separator s, nest(f, s) splits each key on every occurrence
\* of s, so that nest(flatten(m, s), s) = m, at depth three or more too.
NestSplitsOnSeparator ==
    (RoundTripped /\ PlainKeys(m) /\ NoEmptyInner(m))
        => (nested.err = "none" /\ DictEq(nested.val, m))

(***************************************************************************)
(* Properties of the sweep, checked under SpecSweep.  They are stated on   *)
(* the input tree snapIn and on the output trees as get_settings returned  *)
(* them, snapOuts.                                                         *)
(***************************************************************************)
\* get_settings has returned or raised, and the caller has done nothing since
Expanded == done = <<"get_settings">>

Succeeded == Expanded /\ err.kind = "none"

IsTree(v) == v.t = "P"

IsList(v) == v.t = "S"

\* a settings list of ConfigTrees, and a leaf-valued settings list
IsTreeList(v) == IsList(v) /\ \A i \in 1..Len(v.vals) : IsTree(v.vals[i])

IsLeafList(v) == IsList(v) /\ \A i \in 1..Len(v.vals) : v.vals[i].t \in {"int", "B"}

\* every settings list of the tree holds leaves only or ConfigTrees only
RECURSIVE Homogeneous(_)
Homogeneous(tv) ==
    \A i \in 1..Len(tv.vals) :
        LET v == tv.vals[i]
        IN /\ IsTree(v) => Homogeneous(v)
           /\ IsList(v) => \/ IsLeafList(v)
                           \/ IsTreeList(v) /\ \A j \in 1..Len(v.vals) : Homogeneous(v.vals[j])

RECURSIVE SumOf(_)
SumOf(ns) == IF ns = <<>> THEN 0 ELSE Head(ns) + SumOf(Tail(ns))

RECURSIVE ProductOf(_)
ProductOf(ns) == IF ns = <<>> THEN 1 ELSE Head(ns) * ProductOf(Tail(ns))

\* the number of candidates of each field, a fixed field counting for one
RECURSIVE Count(_)
Contribution(v) ==
    IF IsTree(v) THEN Count(v)
    ELSE IF IsLeafList(v) THEN Len(v.vals)
    ELSE IF IsTreeList(v) THEN SumOf([j \in 1..Len(v.vals) |-> Count(v.vals[j])])
    ELSE 1

Count(tv) == ProductOf([i \in 1..Len(tv.vals) |-> Contribution(tv.vals[i])])

\* C3: the number of output trees is the product of the candidate-list
\* lengths of the varying fields: the length of its own expansion for a
\* ConfigTree, the sum of the elements' expansion lengths for a settings list
\* of ConfigTrees, the length for a leaf-valued settings list; one output
\* when no field varies.
ExpansionCardinality ==
    (Succeeded /\ Homogeneous(snapIn)) => Len(outs) = Count(snapIn)

\* a settings list of ConfigTrees whose one element expands to two trees
\* stands beside a fixed field
ExpansionCardinalityWitness ==
    /\ Succeeded /\ Homogeneous(snapIn) /\ Len(outs) = 2
    /\ \E i, j \in 1..Len(snapIn.vals) :
          /\ IsTreeList(snapIn.vals[i]) /\ Len(snapIn.vals[i].vals) = 1
          /\ snapIn.vals[j].t = "B"

\* C4: no two output trees share an object with each other or with the input
\* tree: changing one output tree changes no other output tree, and the input
\* tree is as it was before the expansion.
ExpansionIndependent ==
    (Len(done) >= 1 /\ done[1] = "get_settings") =>
        /\ \A i, j \in 1..Len(outs) :
              i # j => Reach(heap, outs[i]) \cap Reach(heap, outs[j]) = {}
        /\ \A i \in 1..Len(outs) :
              Reach(heap, outs[i]) \cap Reach(heap, RefV(root)) = {}
        /\ Val(heap, RefV(root)) = snapIn
        /\ \A j \in 1..Len(outs) : j # touched => Val(heap, outs[j]) = snapOuts[j]

\* one of four output trees was changed, down to a nested tree
ExpansionIndependentWitness ==
    /\ done = <<"get_settings", "mutate">>
    /\ Len(outs) = 4
    /\ Val(heap, outs[touched]) # snapOuts[touched]
    /\ \E i \in 1..Len(snapIn.vals) : IsTree(snapIn.vals[i])

\* a tree otherwise valid: no settings list that starts with a ConfigTree
\* holds a leaf (get_settings calls get_settings on every element of such a
\* list, and a leaf has none)
RECURSIVE Expandable(_)
Expandable(tv) ==
    \A i \in 1..Len(tv.vals) :
        LET v == tv.vals[i]
        IN /\ IsTree(v) => Expandable(v)
           /\ (IsList(v) /\ v.vals # <<>> /\ IsTree(v.vals[1]))
                 => (IsTreeList(v) /\ \A j \in 1..Len(v.vals) : Expandable(v.vals[j]))

\* the names of the fields holding an empty settings list among the fields
\* expansion visits: the tree's own, those of its ConfigTree fields, and those
\* of the elements of its settings lists of ConfigTrees
RECURSIVE EmptyFields(_)
EmptyFields(tv) ==
    UNION { LET v == tv.vals[i]
            IN IF IsTree(v) THEN EmptyFields(v)
               ELSE IF IsList(v) /\ v.vals = <<>> THEN {tv.keys[i]}
               ELSE IF IsTreeList(v)
               THEN UNION {EmptyFields(v.vals[j]) : j \in 1..Len(v.vals)}
               ELSE {}
            : i \in 1..Len(tv.vals) }

\* C5: when a settings list that expansion visits is empty, in a tree
\* otherwise valid, get_settings raises the error naming a field with an
\* empty list, and returns no output list, not a partial one either.
EmptyListFails ==
    (Expanded /\ Expandable(snapIn) /\ EmptyFields(snapIn) # {})
        => /\ err.kind = "ValueError"
           /\ err.field \in EmptyFields(snapIn)
           /\ outs = <<>>

\* the empty list stands in the second element of a settings list of
\* ConfigTrees, whose first element expands
EmptyListFailsWitness ==
    /\ Expanded /\ Expandable(snapIn) /\ err.kind = "ValueError"
    /\ \E i \in 1..Len(snapIn.vals) :
          LET v == snapIn.vals[i]
          IN /\ IsTreeList(v) /\ Len(v.vals) = 2
             /\ EmptyFields(v.vals[1]) = {}
             /\ EmptyFields(v.vals[2]) # {}

\* a tree no field of which, at any depth, holds a settings list
RECURSIVE Resolved(_)
Resolved(tv) == ~IsList(tv) /\ \A i \in 1..Len(tv.vals) : Resolved(tv.vals[i])

\* no settings list of the tree, at any depth, is empty
RECURSIVE NoEmptyList(_)
NoEmptyList(tv) ==
    /\ IsList(tv) => tv.vals # <<>>
    /\ \A i \in 1..Len(tv.vals) : NoEmptyList(tv.vals[i])

\* C8: every tree get_settings returns is fully resolved, whatever the
\* settings lists of the input hold: leaves, ConfigTrees or both.
OutputsResolved ==
    (Succeeded /\ NoEmptyList(snapIn))
        => \A i \in 1..Len(snapOuts) : Resolved(snapOuts[i])

\* the candidates of a field in order, a fixed field having its value as its
\* one candidate
RECURSIVE ExpectedOutputs(_)
RECURSIVE ExpectedOfAll(_)
ExpectedOfAll(tvs) ==
    IF tvs = <<>> THEN <<>> ELSE ExpectedOutputs(Head(tvs)) \o ExpectedOfAll(Tail(tvs))

Candidates(v) ==
    IF IsTree(v) THEN ExpectedOutputs(v)
    ELSE IF IsLeafList(v) THEN v.vals
    ELSE IF IsTreeList(v) THEN ExpectedOfAll(v.vals)
    ELSE <<v>>

\* the n-th tuple of the cartesian product of the candidate lists, the last
\* field varying fastest: field i holds the candidate whose index is the i-th
\* digit of n - 1 in the mixed radix of the list lengths
ExpectedOutputs(tv) ==
    LET nf    == Len(tv.vals)
        cl    == [i \in 1..nf |-> Candidates(tv.vals[i])]
        W(i)  == ProductOf([l \in 1..(nf - i) |-> Len(cl[i + l])])
        total == ProductOf([i \in 1..nf |-> Len(cl[i])])
    IN [n \in 1..total |->
          TPar(tv.keys,
               [i \in 1..nf |-> cl[i][(((n - 1) \div W(i)) % Len(cl[i])) + 1]])]

\* C9: the i-th output is the input tree with its fixed fields unchanged and
\* its varying fields set from the i-th tuple of the cartesian product of the
\* candidate lists, taken in declared field order with the last field
\* varying fastest; each combination appears once.
ExpansionOrder ==
    (Succeeded /\ Homogeneous(snapIn)) => snapOuts = ExpectedOutputs(snapIn)

\* two varying fields of two candidates each: four different outputs
ExpansionOrderWitness ==
    /\ Succeeded /\ Homogeneous(snapIn)
    /\ Len(snapIn.vals) = 2
    /\ IsLeafList(snapIn.vals[1]) /\ IsLeafList(snapIn.vals[2])
    /\ Len(snapOuts) = 4
    /\ \A i, j \in 1..4 : i # j => snapOuts[i] # snapOuts[j]

====
